---- MODULE Spec2Model ----
(***************************************************************************)
(* Rust In Peace (src/main.rs): startup sequence of main(), init_log(),    *)
(* and the closure handed to event_loop.run, together with the host event  *)
(* loop that invokes it.                                                   *)
(*                                                                         *)
(* Numbers: TLC integers are 32 bit signed, so                             *)
(*   - Instant values are nanoseconds since the loop's clock origin,       *)
(*   - Utc values are milliseconds since the wall clock's origin,          *)
(*   - u32 values are kept as two 16 bit limbs <<hi, lo>>,                 *)
(*   - f32 values of the animation are fixed point, in units of 1/Scale.   *)
(***************************************************************************)
EXTENDS Integers, Sequences, FiniteSets, TLC

VARIABLES
    pc,                   \* position in main(): "init_log", "monitor", "display",
                          \*   "vbo", "program", "loop", "exited"
    debug_build,          \* cfg(debug_assertions) of the build
    exit_status,          \* <<>> while the process runs, <<code>> once it ended
    exit_cause,           \* what ended the process ("" while it runs)
    logger_ready,         \* CombinedLogger::init has run
    log,                  \* entries accepted by the logger: <<level, message>>
    term,                 \* text on stdout/stderr that bypasses the logger
    ops,                  \* the startup operations main() has performed, in order,
                          \*   each <<operation, succeeded>>
    monitor_size,         \* <<>> or <<W, H>>: logical size of the primary monitor
    window_position,      \* <<>> or <<x, y>>, each a u32 as <<hi, lo>>
    start_time,           \* Utc::now().timestamp_millis() at line 45
    now,                  \* std::time::Instant::now(), ns
    utc,                  \* Utc::now().timestamp_millis(), ms
    triangle_animation_t, \* the f32 captured by the closure, fixed point
    control_flow,         \* the host's ControlFlow
    cf_written,           \* what the last closure call left in *control_flow
    cb_entry,             \* Instant::now() read by the last closure call (line 133)
    hphase,               \* host loop position: "events", "cleared", "wait"
    last_event,           \* the event the last closure call handled
    last_ops,             \* the frame operations of the last closure call,
                          \*   each <<operation, succeeded>>
    frame_count,          \* frames presented so far (saturating at MaxFrames)
    drawn,                \* <<elapsed, t>> of every frame whose draw call was issued
    close_seen,           \* a CloseRequested event has been handled
    frame_starts,         \* Instant at the start of the last two frames presented
    frame_dur             \* <<>> or <<ns>>: how long the frame of the running
                          \*   host iteration took

vars == <<pc, debug_build, exit_status, exit_cause, logger_ready, log, term, ops,
          monitor_size, window_position, start_time, now, utc,
          triangle_animation_t, control_flow, cf_written, cb_entry, hphase,
          last_event, last_ops, frame_count, drawn, close_seen,
          frame_starts, frame_dur>>

startup_vars == <<debug_build, logger_ready, ops, monitor_size, window_position,
                  start_time>>
loop_vars == <<triangle_animation_t, control_flow, cf_written, cb_entry, hphase,
               last_event, last_ops, frame_count, drawn, close_seen,
               frame_starts, frame_dur>>

----------------------------------------------------------------------------
(* Bounds of the model. *)

\* The clock stops advancing after this many milliseconds.
MaxClockMs == 20
\* frame_count saturates here.
MaxFrames == 2
\* The wall clock is set back by at most this many milliseconds in all.
MaxClockSkewMs == 10

----------------------------------------------------------------------------
(* Program constants. *)

WindowWidth == 1280
WindowHeight == 600
ExitFatal == -1
PanicStatus == 101
ExitOk == 0
max_fps == 60
NanosPerSec == 1000000000
NanosPerMilli == 1000000
AnimPeriodDivisor == 700

----------------------------------------------------------------------------
(* u32 arithmetic on 16 bit limbs <<hi, lo>>. *)

Limb == 65536

U32(n) == <<n \div Limb, n % Limb>>

\* a < b as unsigned values
U32Less(a, b) == a[1] < b[1] \/ (a[1] = b[1] /\ a[2] < b[2])

\* a - b modulo 2^32 (what a release build's `-` yields)
U32WrappingSub(a, b) ==
    LET borrow == IF a[2] < b[2] THEN 1 ELSE 0
    IN  <<(a[1] - b[1] - borrow) % Limb, (a[2] - b[2]) % Limb>>

\* a / 2, truncating
U32Half(a) == <<a[1] \div 2, ((a[1] % 2) * Limb + a[2]) \div 2>>

----------------------------------------------------------------------------
(* The primary monitor: physical size and scale factor (in quarters), as    *)
(* event_loop.primary_monitor() may report it.                              *)

NoMonitor == <<>>

MonitorInputs ==
    { [w |-> 1920, h |-> 1080, scale4 |-> 4],     \* 1920 x 1080 at 100 %
      [w |-> 1920, h |-> 1080, scale4 |-> 8],     \* the same panel at 200 %: 960 x 540
      [w |-> 2561, h |-> 1201, scale4 |-> 8] }    \* 1280.5 x 600.5, rounded up

\* PhysicalSize::to_logical::<u32>: divide by the scale factor in f64, then
\* Pixel::cast rounds half away from zero.
ToLogical(px, scale4) == (2 * 4 * px + scale4) \div (2 * scale4)

MonitorLogicalSize(m) == <<ToLogical(m.w, m.scale4), ToLogical(m.h, m.scale4)>>

\* monitor_size.width / 2 - window_size.width / 2 (lines 63-66), one axis.
\* The subtraction overflows when the monitor is smaller than the window.
CenterOverflows(monitor, window) == U32Less(U32Half(U32(monitor)), U32Half(U32(window)))

CenterAxis(monitor, window) ==
    U32WrappingSub(U32Half(U32(monitor)), U32Half(U32(window)))

WindowPositionOverflows(size) ==
    \/ CenterOverflows(size[1], WindowWidth)
    \/ CenterOverflows(size[2], WindowHeight)

WindowPosition(size) ==
    <<CenterAxis(size[1], WindowWidth), CenterAxis(size[2], WindowHeight)>>

----------------------------------------------------------------------------
(* Logging. info!/error! reach the loggers only once CombinedLogger::init   *)
(* has run; the debug build's TermLogger echoes entries to the terminal     *)
(* (TerminalMode::Mixed: errors to stderr, the rest to stdout). println!    *)
(* and panic messages go to the terminal only.                              *)

Logged(ready, entries) == IF ready THEN entries ELSE {}

TermEcho(ready, entries) ==
    IF ready /\ debug_build
    THEN { <<IF e[1] = "error" THEN "stderr" ELSE "stdout", e[2]>> : e \in entries }
    ELSE {}

\* process::exit(code)
Exit(code, cause) ==
    /\ pc' = "exited"
    /\ exit_status' = <<code>>
    /\ exit_cause' = cause

\* A panic on the main thread: the message goes to stderr through the default
\* panic hook and the process ends with the runtime's panic status.
Panic(message, cause, echoed) ==
    /\ Exit(PanicStatus, cause)
    /\ term' = term \cup echoed \cup {<<"stderr", message>>}

----------------------------------------------------------------------------
(* Startup: main() lines 44-128 and init_log(). *)

SessionEntries ==
    { <<"info", "Session started">>, <<"info", "Built at">>,
      <<"info", IF debug_build THEN "Debug build" ELSE "Release build">> }

\* Mutant: a failed create_dir_all ends the process as well.
InitLogProceedsOnlyWithDir(dir_ok, file_ok) == dir_ok /\ file_ok

\* Whether init_log goes on to create the loggers: the match on log_file
\* (lines 210-228); the result of create_dir_all is only reported (191-194).
InitLogProceeds(dir_ok, file_ok) == file_ok

\* init_log (lines 188-241), called at line 46
InitLog(dir_ok, file_ok) ==
    /\ pc = "init_log"
    /\ LET warn == IF dir_ok THEN {} ELSE {<<"stdout", "Failed to create logs directory">>}
           tried == <<<<"create_dir_all", dir_ok>>, <<"File::create", file_ok>>>>
       IN  IF InitLogProceeds(dir_ok, file_ok)
           THEN /\ ops' = ops \o tried \o <<<<"CombinedLogger::init", TRUE>>>>
                /\ logger_ready' = TRUE
                /\ log' = log \cup Logged(TRUE, SessionEntries)
                /\ term' = term \cup warn \cup TermEcho(TRUE, SessionEntries)
                /\ pc' = "monitor"
                /\ UNCHANGED <<exit_status, exit_cause>>
           ELSE /\ ops' = ops \o tried
                /\ term' = term \cup warn \cup {<<"stdout", "Failed to create log file">>}
                /\ Exit(ExitFatal, "log_file")
                /\ UNCHANGED <<logger_ready, log>>
    /\ UNCHANGED <<debug_build, monitor_size, window_position, start_time, now, utc>>
    /\ UNCHANGED loop_vars

\* Mutant: exit without the error! call.
NoMonitorEntriesOmitted == {}

\* What main() logs when primary_monitor() is None (line 57).
NoMonitorEntries == {<<"error", "No monitor available">>}

\* lines 48-66: EventLoop::new, primary_monitor, window_position
FindMonitor(m) ==
    /\ pc = "monitor"
    /\ LET created == {<<"info", "Creating window">>}
           tried == <<<<"EventLoop::new", TRUE>>, <<"primary_monitor", m # NoMonitor>>>>
       IN  IF m = NoMonitor
           THEN /\ ops' = ops \o tried
                /\ log' = log \cup Logged(logger_ready, created \cup NoMonitorEntries)
                /\ term' = term \cup TermEcho(logger_ready, created \cup NoMonitorEntries)
                /\ Exit(ExitFatal, "no_monitor")
                /\ UNCHANGED <<monitor_size, window_position>>
           ELSE LET size == MonitorLogicalSize(m)
                IN  /\ ops' = ops \o tried
                    /\ log' = log \cup Logged(logger_ready, created)
                    /\ monitor_size' = size
                    /\ IF WindowPositionOverflows(size) /\ debug_build
                       THEN /\ Panic("attempt to subtract with overflow", "position_overflow",
                                     TermEcho(logger_ready, created))
                            /\ UNCHANGED window_position
                       ELSE /\ window_position' = WindowPosition(size)
                            /\ term' = term \cup TermEcho(logger_ready, created)
                            /\ pc' = "display"
                            /\ UNCHANGED <<exit_status, exit_cause>>
    /\ UNCHANGED <<debug_build, logger_ready, start_time, now, utc>>
    /\ UNCHANGED loop_vars

\* lines 68-83: glium::Display::new
CreateDisplay(ok) ==
    /\ pc = "display"
    /\ ops' = ops \o <<<<"Display::new", ok>>>>
    /\ IF ok
       THEN /\ log' = log \cup Logged(logger_ready, {<<"info", "Successfully created window">>})
            /\ term' = term \cup TermEcho(logger_ready, {<<"info", "Successfully created window">>})
            /\ pc' = "vbo"
            /\ UNCHANGED <<exit_status, exit_cause>>
       ELSE /\ log' = log \cup Logged(logger_ready, {<<"error", "Failed to create window">>})
            /\ term' = term \cup TermEcho(logger_ready, {<<"error", "Failed to create window">>})
            /\ Exit(ExitFatal, "display")
    /\ UNCHANGED <<debug_build, logger_ready, monitor_size, window_position,
                   start_time, now, utc>>
    /\ UNCHANGED loop_vars

\* Mutant: the result of the vertex upload is not looked at.
UploadVerticesUnchecked(ok) ==
    /\ pc = "vbo"
    /\ ops' = ops \o <<<<"VertexBuffer::new", ok>>>>
    /\ pc' = "program"
    /\ UNCHANGED <<exit_status, exit_cause, term>>
    /\ UNCHANGED <<debug_build, logger_ready, log, monitor_size, window_position,
                   start_time, now, utc>>
    /\ UNCHANGED loop_vars

\* lines 85-101: glium::VertexBuffer::new(&display, &shape).unwrap()
UploadVertices(ok) ==
    /\ pc = "vbo"
    /\ ops' = ops \o <<<<"VertexBuffer::new", ok>>>>
    /\ IF ok
       THEN /\ pc' = "program"
            /\ UNCHANGED <<exit_status, exit_cause, term>>
       ELSE Panic("called Result::unwrap() on an Err value", "vertex_upload", {})
    /\ UNCHANGED <<debug_build, logger_ready, log, monitor_size, window_position,
                   start_time, now, utc>>
    /\ UNCHANGED loop_vars

\* lines 102-128: glium::Program::from_source(..).expect("Failed to compile shader"),
\* then event_loop.run (line 130) starts the host loop
CompileProgram(ok) ==
    /\ pc = "program"
    /\ IF ok
       THEN /\ ops' = ops \o <<<<"Program::from_source", TRUE>>, <<"EventLoop::run", TRUE>>>>
            /\ pc' = "loop"
            /\ UNCHANGED <<exit_status, exit_cause, term>>
       ELSE /\ ops' = ops \o <<<<"Program::from_source", FALSE>>>>
            /\ Panic("Failed to compile shader: compiler diagnostic", "shader", {})
    /\ UNCHANGED <<debug_build, logger_ready, log, monitor_size, window_position,
                   start_time, now, utc>>
    /\ UNCHANGED loop_vars

----------------------------------------------------------------------------
(* The animation value (lines 163-164):                                     *)
(*   ((Utc::now().timestamp_millis() - start_time) as f32 / 700.0).sin()    *)

\* Fixed point scale of the modelled f32 values.
Scale == 10000
\* pi and pi/2 in units of 1/Scale, and the period 2*pi*700 ms of the
\* animation split into whole milliseconds and ten-thousandths.
Pi4 == 31416
HalfPi4 == 15708
PeriodMs == 4398
PeriodFrac4 == 2297
Period4 == 43982297
F32Exact == 16777216

Abs(n) == IF n < 0 THEN 0 - n ELSE n

RECURSIVE Ulp(_)
\* The spacing of f32 values around a non-negative integer n.
Ulp(n) == IF n < F32Exact THEN 1 ELSE 2 * Ulp(n \div 2)

\* `as f32` of an i64: round to nearest, ties to even, 24 bit significand.
ToF32(n) ==
    LET a == Abs(n)
        u == Ulp(a)
        q == a \div u
        r == a % u
        up == 2 * r > u \/ (2 * r = u /\ q % 2 = 1)
        m == IF up THEN (q + 1) * u ELSE q * u
    IN  IF n < 0 THEN 0 - m ELSE m

\* The next term of the series: m * (y/Scale)^2 / d.
TaylorTerm(m, y, d) == ((((m * y) \div Scale) * y) \div Scale) \div d

\* sin(y / Scale) * Scale for y in 0..HalfPi4, by the Taylor series to x^9,
\* saturated at 1.0 as sinf's result is.
SinQuarter(y) ==
    LET m1 == y
        m3 == TaylorTerm(m1, y, 6)
        m5 == TaylorTerm(m3, y, 20)
        m7 == TaylorTerm(m5, y, 42)
        m9 == TaylorTerm(m7, y, 72)
        v == m1 - m3 + m5 - m7 + m9
    IN  IF v > Scale THEN Scale ELSE v

\* sin(ms / 700.0) * Scale for an f32 valued millisecond count. The rounding
\* of the f32 quotient is below 1/Scale for |ms| < 2^20.
SinOfMillis(ms) ==
    LET a == Abs(ms)
        k == a \div PeriodMs
        r4 == ((a - k * PeriodMs) * Scale - k * PeriodFrac4) % Period4
        x4 == r4 \div AnimPeriodDivisor
        neg == x4 >= Pi4
        y == IF neg THEN x4 - Pi4 ELSE x4
        z == IF y > HalfPi4 THEN Pi4 - y ELSE y
        v == IF neg THEN 0 - SinQuarter(z) ELSE SinQuarter(z)
    IN  IF ms < 0 THEN 0 - v ELSE v

\* Mutant: the animation advances by a fixed step per frame.
AnimationTPerFrame(utc_now) == SinOfMillis(ToF32(16 * (frame_count + 1)))

\* Mutant: the elapsed time is taken in seconds.
AnimationTSeconds(utc_now) == SinOfMillis(ToF32((utc_now - start_time) \div 1000))

\* The value assigned to triangle_animation_t by a frame that reads the wall
\* clock as utc_now.
AnimationT(utc_now) == SinOfMillis(ToF32(utc_now - start_time))

----------------------------------------------------------------------------
(* Frame pacing (lines 131-134). *)

\* Mutant: the division rounds to nearest.
FrameBudgetNsRounded == (NanosPerSec + max_fps \div 2) \div max_fps

FrameBudgetNs == NanosPerSec \div max_fps

Poll == [kind |-> "Poll", deadline |-> 0]
ExitFlow == [kind |-> "Exit", deadline |-> 0]
WaitUntil(instant) == [kind |-> "WaitUntil", deadline |-> instant]

NextFrameTime(instant) == WaitUntil(instant + FrameBudgetNs)

----------------------------------------------------------------------------
(* Events the host hands to the closure. *)

Event(kind, keycode, state, synthetic, cause) ==
    [kind |-> kind, keycode |-> keycode, state |-> state, synthetic |-> synthetic,
     cause |-> cause]

Plain(kind) == Event(kind, "none", "none", FALSE, "none")

NoEvent == Plain("none")
CloseRequested == Plain("CloseRequested")
MainEventsCleared == Plain("MainEventsCleared")
RedrawRequested == Plain("RedrawRequested")
RedrawEventsCleared == Plain("RedrawEventsCleared")
LoopDestroyed == Plain("LoopDestroyed")
DeviceEvent == Plain("DeviceEvent")
\* a WindowEvent other than CloseRequested and KeyboardInput (Resized, Focused, ...)
WindowOther == Plain("WindowOther")

\* virtual_keycode: Some(Escape), Some(another key), None
KeyboardInputs ==
    { Event("KeyboardInput", "Escape", st, y, "none") :
        st \in {"Pressed", "Released"}, y \in BOOLEAN }
    \cup { Event("KeyboardInput", "A", "Pressed", FALSE, "none"),
           Event("KeyboardInput", "None", "Released", FALSE, "none") }

NewEvents(cause) == Event("NewEvents", "none", "none", FALSE, cause)

QueuedEvents == {CloseRequested, WindowOther, DeviceEvent} \cup KeyboardInputs

\* How long drawing and presenting one frame may take, ns.
FrameDurations == {0, 20 * NanosPerMilli}
\* How far the clock may advance between two steps, ns.
TickSteps == {10 * NanosPerMilli, 20 * NanosPerMilli}
\* By how much the wall clock may be adjusted in one step, ms.
ClockAdjustments == {-10, 10}

----------------------------------------------------------------------------
(* The closure passed to event_loop.run (lines 130-185). *)

\* Mutant: every key input with a keycode exits.
IsExitEventAnyKey(ev) ==
    \/ ev.kind = "CloseRequested"
    \/ (ev.kind = "KeyboardInput" /\ ev.keycode # "None")

\* Mutant: only a pressed, non-synthetic Escape exits.
IsExitEventPressedOnly(ev) ==
    \/ ev.kind = "CloseRequested"
    \/ /\ ev.kind = "KeyboardInput" /\ ev.keycode = "Escape"
       /\ ev.state = "Pressed" /\ ~ev.synthetic

IsExitEvent(ev) ==
    \/ ev.kind = "CloseRequested"
    \/ (ev.kind = "KeyboardInput" /\ ev.keycode = "Escape")

\* What one call leaves in *control_flow: line 134 first, then lines 139 / 150.
ClosureFlow(ev) == IF IsExitEvent(ev) THEN ExitFlow ELSE NextFrameTime(now)

\* What one call logs (lines 138, 149).
ClosureEntries(ev) ==
    IF ev.kind = "CloseRequested" THEN {<<"info", "Close event received">>}
    ELSE IF IsExitEvent(ev) THEN {<<"info", "Escape pressed">>}
    ELSE {}

\* The outcomes of target.draw(..) and target.finish() (lines 168-177).
DrawOutcomes == {"ok", "draw_failed", "finish_failed"}

\* Mutant: the target is cleared after the triangle was drawn to it.
FrameOpsClearLast(outcome) ==
    IF outcome = "draw_failed"
    THEN <<<<"triangle_animation_t", TRUE>>, <<"display.draw", TRUE>>,
           <<"draw", FALSE>>>>
    ELSE <<<<"triangle_animation_t", TRUE>>, <<"display.draw", TRUE>>,
           <<"draw", TRUE>>, <<"clear_color", TRUE>>, <<"finish", outcome = "ok">>>>

\* The steps of one MainEventsCleared call with their results (lines 163-177):
\* the assignment of t, then the frame operations; a failed draw panics before
\* finish is called.
FrameOps(outcome) ==
    IF outcome = "draw_failed"
    THEN <<<<"triangle_animation_t", TRUE>>, <<"display.draw", TRUE>>,
           <<"clear_color", TRUE>>, <<"draw", FALSE>>>>
    ELSE <<<<"triangle_animation_t", TRUE>>, <<"display.draw", TRUE>>,
           <<"clear_color", TRUE>>, <<"draw", TRUE>>, <<"finish", outcome = "ok">>>>

Min(a, b) == IF a < b THEN a ELSE b

\* The last two elements of a sequence.
LastTwo(seq) == IF Len(seq) <= 2 THEN seq ELSE SubSeq(seq, Len(seq) - 1, Len(seq))

\* Mutant: the host takes whatever the closure wrote last.
HostControlFlowLastWrite(current, written) == written

\* The control flow the host acts on after a closure call that wrote `written`.
\* The host makes ControlFlow::Exit sticky: once it is set, the closure writes
\* to a dummy.
HostControlFlow(current, written) ==
    IF current.kind = "Exit" THEN current ELSE written

\* One call of the closure with event ev. host_exits: the host ends the
\* process right after this call (the LoopDestroyed call).
Callback(ev, host_exits) ==
    /\ pc = "loop"
    /\ cb_entry' = now
    /\ last_event' = ev
    /\ cf_written' = ClosureFlow(ev)
    /\ control_flow' = HostControlFlow(control_flow, ClosureFlow(ev))
    /\ close_seen' = (close_seen \/ ev.kind = "CloseRequested")
    /\ log' = log \cup Logged(logger_ready, ClosureEntries(ev))
    /\ IF ev.kind = "MainEventsCleared"
       THEN \E outcome \in DrawOutcomes, dur \in FrameDurations :
              LET t == AnimationT(utc)
              IN  /\ now + dur <= MaxClockMs * NanosPerMilli
                  /\ triangle_animation_t' = t
                  /\ drawn' = drawn \cup {<<utc - start_time, t>>}
                  /\ last_ops' = FrameOps(outcome)
                  /\ IF outcome = "ok"
                     THEN /\ frame_count' = Min(frame_count + 1, MaxFrames)
                          /\ frame_starts' = LastTwo(frame_starts \o <<now>>)
                          /\ frame_dur' = <<dur>>
                          /\ now' = now + dur
                          /\ utc' = utc + dur \div NanosPerMilli
                          /\ UNCHANGED <<pc, exit_status, exit_cause, term>>
                     ELSE /\ IF outcome = "draw_failed"
                             THEN Panic("Failed to draw frame", "draw", {})
                             ELSE Panic("Failed to swap buffers", "present", {})
                          /\ UNCHANGED <<frame_count, now, utc, frame_starts, frame_dur>>
       ELSE /\ last_ops' = <<>>
            /\ term' = term \cup TermEcho(logger_ready, ClosureEntries(ev))
            /\ IF host_exits
               THEN Exit(ExitOk, "loop_exit")
               ELSE UNCHANGED <<pc, exit_status, exit_cause>>
            /\ frame_dur' = IF ev.kind = "NewEvents" THEN <<>> ELSE frame_dur
            /\ UNCHANGED <<triangle_animation_t, drawn, frame_count, now, utc,
                           frame_starts>>
    /\ UNCHANGED startup_vars

----------------------------------------------------------------------------
(* The host event loop (event_loop.run, line 130): per iteration NewEvents, *)
(* the queued window and device events, MainEventsCleared, redraw events,   *)
(* RedrawEventsCleared, then the wait that control_flow asks for.           *)

\* The next iteration starts: at once under Poll, when the deadline has passed
\* under WaitUntil, or earlier because an event arrived.
HostNewEvents(cause) ==
    /\ hphase \in {"start", "wait"}
    /\ control_flow.kind # "Exit"
    /\ \/ cause = "Init" /\ hphase = "start"
       \/ cause = "Poll" /\ hphase = "wait" /\ control_flow.kind = "Poll"
       \/ /\ cause = "ResumeTimeReached" /\ hphase = "wait"
          /\ control_flow.kind = "WaitUntil" /\ now >= control_flow.deadline
       \/ /\ cause = "WaitCancelled" /\ hphase = "wait"
          /\ control_flow.kind = "WaitUntil" /\ now < control_flow.deadline
    /\ hphase' = "events"
    /\ Callback(NewEvents(cause), FALSE)

HostDispatch(ev) ==
    /\ hphase = "events"
    /\ hphase' = "events"
    /\ Callback(ev, FALSE)

HostMainEventsCleared ==
    /\ hphase = "events"
    /\ hphase' = "cleared"
    /\ Callback(MainEventsCleared, FALSE)

HostRedrawRequested ==
    /\ hphase = "cleared"
    /\ hphase' = "cleared"
    /\ Callback(RedrawRequested, FALSE)

HostRedrawEventsCleared ==
    /\ hphase = "cleared"
    /\ hphase' = "wait"
    /\ Callback(RedrawEventsCleared, FALSE)

\* ControlFlow::Exit: the host sends LoopDestroyed and ends the process with
\* status 0; whether it first finishes the running iteration is the platform's
\* choice.
HostExit ==
    /\ control_flow.kind = "Exit"
    /\ UNCHANGED hphase
    /\ Callback(LoopDestroyed, TRUE)

----------------------------------------------------------------------------
(* The clocks. *)

\* Time passes. The clocks are read at line 45 and inside the closure only, so
\* the time that startup takes shows as time passing before the first event.
Tick(d) ==
    /\ pc = "loop"
    /\ now + d <= MaxClockMs * NanosPerMilli
    /\ now' = now + d
    /\ utc' = utc + d \div NanosPerMilli
    /\ UNCHANGED <<pc, exit_status, exit_cause, log, term>>
    /\ UNCHANGED startup_vars
    /\ UNCHANGED loop_vars

\* The wall clock is adjusted (Utc::now() is not monotonic); Instant is not.
ClockStep(delta) ==
    /\ pc = "loop"
    /\ (utc + delta) - now \div NanosPerMilli \in (0 - MaxClockSkewMs)..0
    /\ utc' = utc + delta
    /\ UNCHANGED <<pc, exit_status, exit_cause, log, term, now>>
    /\ UNCHANGED startup_vars
    /\ UNCHANGED loop_vars

----------------------------------------------------------------------------

Init ==
    /\ pc = "init_log"
    /\ debug_build \in BOOLEAN
    /\ exit_status = <<>>
    /\ exit_cause = ""
    /\ logger_ready = FALSE
    /\ log = {}
    /\ term = {}
    /\ ops = <<>>
    /\ monitor_size = <<>>
    /\ window_position = <<>>
    /\ start_time = 0
    /\ now = 0
    /\ utc = 0
    /\ triangle_animation_t = 0
    /\ control_flow = Poll
    /\ cf_written = Poll
    /\ cb_entry = 0
    /\ hphase = "start"
    /\ last_event = NoEvent
    /\ last_ops = <<>>
    /\ frame_count = 0
    /\ drawn = {}
    /\ close_seen = FALSE
    /\ frame_starts = <<>>
    /\ frame_dur = <<>>

Next ==
    \/ \E dir_ok \in BOOLEAN, file_ok \in BOOLEAN : InitLog(dir_ok, file_ok)
    \/ \E m \in MonitorInputs \cup {NoMonitor} : FindMonitor(m)
    \/ \E ok \in BOOLEAN : CreateDisplay(ok)
    \/ \E ok \in BOOLEAN : UploadVertices(ok)
    \/ \E ok \in BOOLEAN : CompileProgram(ok)
    \/ \E cause \in {"Init", "Poll", "ResumeTimeReached", "WaitCancelled"} : HostNewEvents(cause)
    \/ \E ev \in QueuedEvents : HostDispatch(ev)
    \/ HostMainEventsCleared
    \/ HostRedrawRequested
    \/ HostRedrawEventsCleared
    \/ HostExit
    \/ \E d \in TickSteps : Tick(d)
    \/ \E delta \in ClockAdjustments : ClockStep(delta)

Spec == Init /\ [][Next]_vars

----------------------------------------------------------------------------
(* The animation function over a wide range of elapsed times: event_loop.run *)
(* is entered e ms after line 45 read start_time (startup took that long, or *)
(* the wall clock was adjusted meanwhile), and the host runs iterations with *)
(* no input.                                                                 *)

\* Elapsed milliseconds at the first iteration: three periods of the
\* animation around 0, its extrema, and values at and beyond 2^24.
ElapsedInputs ==
    { 550 * i : i \in -8..16 } \cup {3299, 16777216, 67108867}

\* A wall clock reading at line 45.
StartTimeInput == 5000

InitAnim ==
    /\ pc = "loop"
    /\ debug_build = FALSE
    /\ exit_status = <<>>
    /\ exit_cause = ""
    /\ logger_ready = TRUE
    /\ log = SessionEntries \cup {<<"info", "Creating window">>,
                                  <<"info", "Successfully created window">>}
    /\ term = {}
    /\ ops = << <<"create_dir_all", TRUE>>, <<"File::create", TRUE>>,
                <<"CombinedLogger::init", TRUE>>, <<"EventLoop::new", TRUE>>,
                <<"primary_monitor", TRUE>>, <<"Display::new", TRUE>>,
                <<"VertexBuffer::new", TRUE>>, <<"Program::from_source", TRUE>>,
                <<"EventLoop::run", TRUE>> >>
    /\ monitor_size = <<1920, 1080>>
    /\ window_position = WindowPosition(<<1920, 1080>>)
    /\ start_time = StartTimeInput
    /\ now = 0
    /\ utc \in { StartTimeInput + e : e \in ElapsedInputs }
    /\ triangle_animation_t = 0
    /\ control_flow = Poll
    /\ cf_written = Poll
    /\ cb_entry = 0
    /\ hphase = "start"
    /\ last_event = NoEvent
    /\ last_ops = <<>>
    /\ frame_count = 0
    /\ drawn = {}
    /\ close_seen = FALSE
    /\ frame_starts = <<>>
    /\ frame_dur = <<>>

NextAnim ==
    \/ \E cause \in {"Init", "Poll", "ResumeTimeReached", "WaitCancelled"} : HostNewEvents(cause)
    \/ HostMainEventsCleared
    \/ HostRedrawEventsCleared

SpecAnim == InitAnim /\ [][NextAnim]_vars

----------------------------------------------------------------------------
(* Properties. *)

Range(seq) == { seq[i] : i \in 1..Len(seq) }

Performed(seq, name) == \E o \in Range(seq) : o[1] = name
Failed(seq, name) == <<name, FALSE>> \in Range(seq)

EscapeKey(e) == e.kind = "KeyboardInput" /\ e.keycode = "Escape"
Exiting == control_flow.kind = "Exit"

\* C1: once a close request has been handled the loop is Exiting and no later
\* closure call acquires, clears, draws to or presents a frame target.
C1_NoFrameAfterClose ==
    close_seen => (Exiting /\ last_ops = <<>>)

\* C2 as stated: an Escape key input moves the loop to Exiting; every other
\* event leaves the loop state Running and leaves t unchanged.
C2_OnlyEscapeActs ==
    [][pc = "loop" =>
         IF EscapeKey(last_event')
         THEN Exiting'
         ELSE /\ (~Exiting => ~Exiting')
              /\ triangle_animation_t' = triangle_animation_t]_vars

\* C2 amended: an Escape key input moves the loop to Exiting; every event other
\* than an Escape key input and a close request leaves the loop state as it
\* was, and every event other than the all-events-processed marker leaves t
\* unchanged.
C2_EscapeExitsOthersIgnored ==
    [][pc = "loop" =>
         /\ (EscapeKey(last_event') => Exiting')
         /\ (~EscapeKey(last_event') /\ last_event'.kind # "CloseRequested"
               => (Exiting' <=> Exiting))
         /\ (last_event'.kind # "MainEventsCleared"
               => triangle_animation_t' = triangle_animation_t)]_vars

\* C2 witness: a key other than Escape was handled after a frame had set t, and
\* the loop is still running.
C2_Witness ==
    /\ last_event.kind = "KeyboardInput" /\ last_event.keycode = "A"
    /\ pc = "loop" /\ ~Exiting
    /\ triangle_animation_t # 0

\* C3: a failed draw or present leaves the process running, in the loop.
C3_FrameFailureSurvived ==
    (Failed(last_ops, "draw") \/ Failed(last_ops, "finish"))
        => (pc = "loop" /\ exit_status = <<>>)

\* C4: with no monitor the process logs the no-monitor error, exits with the
\* fatal status, and never runs the display creation step.
C4_NoMonitorIsFatal ==
    Failed(ops, "primary_monitor")
        => /\ pc = "exited"
           /\ exit_status = <<ExitFatal>>
           /\ <<"error", "No monitor available">> \in log
           /\ ~Performed(ops, "Display::new")

C4_Witness == pc = "exited" /\ exit_cause = "no_monitor"

\* C5: the exit status is 0 when the loop ends through close or Escape, and the
\* one fatal status for no monitor, window creation failure, shader compile
\* failure and log file failure.
C5_ExitStatuses ==
    pc = "exited" =>
        /\ (exit_cause = "loop_exit" => exit_status = <<ExitOk>>)
        /\ (exit_cause \in {"no_monitor", "display", "shader", "log_file"}
              => exit_status = <<ExitFatal>>)

\* C6: when the process ends on a fatal startup condition (no monitor, window
\* creation, vertex upload, shader compile) the log holds an error entry.
C6_FatalIsLogged ==
    (pc = "exited" /\ exit_cause \in {"no_monitor", "display", "vertex_upload", "shader"})
        => \E e \in log : e[1] = "error"

\* C7: a failed create_dir_all is followed by the attempt to create the log
\* file and ends the process only if that attempt fails too; a failed
\* File::create ends the process with the fatal status before the logger is
\* initialised, before a window is created and before the loop starts.
C7_DirBestEffortFileFatal ==
    /\ Failed(ops, "create_dir_all")
         => /\ Performed(ops, "File::create")
            /\ (<<"File::create", TRUE>> \in Range(ops) => logger_ready)
    /\ Failed(ops, "File::create")
         => /\ pc = "exited"
            /\ exit_status = <<ExitFatal>>
            /\ ~logger_ready
            /\ ~Performed(ops, "CombinedLogger::init")
            /\ ~Performed(ops, "Display::new")
            /\ ~Performed(ops, "EventLoop::run")

C7_Witness ==
    /\ Failed(ops, "create_dir_all")
    /\ logger_ready
    /\ pc = "loop"

\* C8: the window position is ((W - w) / 2, (H - h) / 2) in u32 arithmetic for
\* every monitor logical size (W, H), and (320, 240) for 1920 x 1080.
C8_ClaimedAxis(monitor, window) == U32Half(U32WrappingSub(U32(monitor), U32(window)))

C8_PositionIsCentered ==
    monitor_size # <<>> =>
        /\ window_position = <<C8_ClaimedAxis(monitor_size[1], WindowWidth),
                               C8_ClaimedAxis(monitor_size[2], WindowHeight)>>
        /\ (monitor_size = <<1920, 1080>> => window_position = <<U32(320), U32(240)>>)

\* C9: the deadline a closure call leaves is the instant it read plus exactly
\* 16,666,666 ns.
C9_BudgetIs16666666 ==
    cf_written.kind = "WaitUntil" => cf_written.deadline - cb_entry = 16666666

C9_Witness ==
    /\ cf_written.kind = "WaitUntil"
    /\ cb_entry > 0
    /\ last_event.kind = "MainEventsCleared"

\* C10: two frames drawn at the same elapsed time were drawn with the same t.
C10_TDependsOnElapsedOnly ==
    \A p \in drawn, q \in drawn : p[1] = q[1] => p[2] = q[2]

\* C10 witness: a second frame drawn at the elapsed time of the first, with a
\* different t in force before it, got the same t.
C10_Witness ==
    /\ frame_count >= 2
    /\ Cardinality(drawn) = 1
    /\ triangle_animation_t # 0

\* C11: the t of every frame is sin(e / 700.0), with e the elapsed milliseconds
\* as the f32 that the code divides, to within the fixed point resolution, and
\* lies in [-1, 1]. The table holds sin(e / 700.0) * 10000, rounded.
C11_SinTable ==
    { <<-4400, -25>>, <<-4380, 260>>, <<-3850, 7055>>, <<-3830, 7255>>,
      <<-3300, 10000>>, <<-3280, 9996>>, <<-2750, 7082>>, <<-2730, 6878>>,
      <<-2200, 13>>, <<-2180, -273>>, <<-1650, -7064>>, <<-1630, -7264>>,
      <<-1100, -10000>>, <<-1080, -9996>>, <<-550, -7073>>, <<-530, -6868>>,
      <<0, 0>>, <<20, 286>>, <<550, 7073>>, <<570, 7272>>, <<1100, 10000>>,
      <<1120, 9996>>, <<1650, 7064>>, <<1670, 6859>>, <<2200, -13>>,
      <<2220, -298>>, <<2750, -7082>>, <<2770, -7281>>, <<3299, -10000>>,
      <<3319, -9996>>, <<3300, -10000>>, <<3320, -9995>>, <<3850, -7055>>,
      <<3870, -6850>>, <<4400, 25>>, <<4420, 311>>, <<4950, 7091>>,
      <<4970, 7290>>, <<5500, 10000>>, <<5520, 9995>>, <<6050, 7046>>,
      <<6070, 6841>>, <<6600, -38>>, <<6620, -324>>, <<7150, -7100>>,
      <<7170, -7298>>, <<7700, -10000>>, <<7720, -9995>>, <<8250, -7037>>,
      <<8270, -6832>>, <<8800, 51>>, <<8820, 336>>,
      <<16777216, -2387>>, <<16777236, -2664>>,
      <<67108867, 8216>>, <<67108887, 8407>> }

C12_FramesPaced ==
    Len(frame_starts) = 2 => frame_starts[2] - frame_starts[1] >= FrameBudgetNs

\* C13: after every MainEventsCleared call handled in Running the control flow
\* is WaitUntil(d), with d the instant read in that call plus the budget, and
\* never Poll; and when the frame of an iteration took longer than the budget,
\* the deadline in force when the host starts to wait has already passed.
C13_DeadlineAfterFrame ==
    /\ (pc = "loop" /\ last_event.kind = "MainEventsCleared" /\ ~Exiting)
           => control_flow = WaitUntil(cb_entry + FrameBudgetNs)
    /\ (pc = "loop" /\ last_event.kind # "none") => control_flow.kind # "Poll"
    /\ (pc = "loop" /\ hphase = "wait" /\ ~Exiting /\ frame_dur # <<>>
        /\ frame_dur[1] > FrameBudgetNs)
           => control_flow.kind = "WaitUntil" /\ control_flow.deadline <= now

\* C14: a closure call for an event that is neither a close request, nor an
\* Escape key input, nor MainEventsCleared leaves the control flow in force
\* before it, its WaitUntil deadline included, in force after it, and draws no
\* frame.
C14_Ignorable(e) ==
    /\ e.kind \in {"NewEvents", "KeyboardInput", "WindowOther", "DeviceEvent",
                   "RedrawRequested", "RedrawEventsCleared"}
    /\ ~EscapeKey(e)

C14_IgnoredEventKeepsFlow ==
    [][(pc = "loop" /\ control_flow.kind = "WaitUntil" /\ C14_Ignorable(last_event'))
           => (control_flow' = control_flow /\ last_ops' = <<>> /\ drawn' = drawn)]_vars

C16_ExitEndsWithStatus0 ==
    (Exiting /\ pc = "exited") => exit_status = <<ExitOk>>

\* The steps of a whole frame, in the order the claim gives them.
C17_FrameSteps ==
    << <<"triangle_animation_t", TRUE>>, <<"display.draw", TRUE>>,
       <<"clear_color", TRUE>>, <<"draw", TRUE>>, <<"finish", TRUE>> >>

C18_Positions(seq, name) == { i \in 1..Len(seq) : seq[i][1] = name }

\* The startup steps in the order of the claim: logging, window, vertices,
\* program, and the start of the loop.
C18_StartupOrder ==
    <<"CombinedLogger::init", "Display::new", "VertexBuffer::new",
      "Program::from_source", "EventLoop::run">>

\* C18: window creation, vertex upload and shader compilation happen at most
\* once in a run and exactly once in a run that starts the loop, in that order,
\* after logging is initialised and before the first loop iteration; no loop
\* iteration repeats them; the loop starts only if all three succeeded.
C18_StartupOnceInOrder ==
    /\ \A k \in 1..Len(C18_StartupOrder) :
           Cardinality(C18_Positions(ops, C18_StartupOrder[k])) <= 1
    /\ \A k \in 2..Len(C18_StartupOrder) :
           \A j \in C18_Positions(ops, C18_StartupOrder[k]) :
               \E i \in C18_Positions(ops, C18_StartupOrder[k - 1]) :
                   i < j /\ ops[i][2]
    /\ (pc = "loop" \/ last_event # NoEvent)
           => /\ logger_ready
              /\ \A k \in 1..Len(C18_StartupOrder) :
                     <<C18_StartupOrder[k], TRUE>> \in Range(ops)

\* C18 witness: two frames have been drawn by loop iterations after a startup
\* that performed each step once.
C18_Witness ==
    /\ pc = "loop" /\ Len(frame_starts) = 2
    /\ \A k \in 1..Len(C18_StartupOrder) :
           Cardinality(C18_Positions(ops, C18_StartupOrder[k])) = 1

\* C19: a keyboard input whose virtual keycode is Escape moves the loop to
\* Exiting whatever its key state and whether or not it is synthetic: the call
\* that handled it wrote Exit, logged the key press and drew nothing.
C19_EscapeAnyStateExits ==
    \A st \in {"Pressed", "Released"}, y \in BOOLEAN :
        last_event = Event("KeyboardInput", "Escape", st, y, "none")
            => /\ cf_written = ExitFlow
               /\ Exiting
               /\ <<"info", "Escape pressed">> \in log
               /\ last_ops = <<>>

\* C19 witness: a synthetic key release of Escape has been handled and the
\* loop is Exiting, no close request having been seen.
C19_Witness ==
    /\ last_event = Event("KeyboardInput", "Escape", "Released", TRUE, "none")
    /\ Exiting /\ ~close_seen

====
